---- MODULE Spec2Model ----
(***************************************************************************)
(* Model of the chat backend of "Ask The Storytell AI":                    *)
(*   src/backend.py      the /api/chat handler and the session store       *)
(*   src/storyteller.py  Storyteller.generate_response and its subtasks    *)
(*                                                                         *)
(* The server is a single asyncio event loop.  A handler runs without      *)
(* interruption until it awaits an external call; the variable `loop`      *)
(* names the request that currently holds the event loop (0: the loop is   *)
(* free and may start a handler, resume one, or run a child task).         *)
(* Python lists are objects: `lists` is the heap of list objects and the   *)
(* session map and every handler hold references (indices) into it.        *)
(***************************************************************************)
EXTENDS Integers, Sequences, FiniteSets, TLC

(* ------------------------------ bounds --------------------------------- *)
\* request slots: how many handlers can be in flight together
NumSlots == 2
\* session ids the clients use
NumSessions == 2
\* MAX_CONVERSATION_HISTORY is configured anywhere in 0..MaxTurnsBound
MaxTurnsBound == 2
\* requests that arrive in one run of Spec (one in flight at a time)
MaxArrivals == 1
\* requests that arrive in one run of SpecStore (overlapping, any session)
MaxStoreArrivals == 3
\* requests that arrive in one run of SpecRace (overlapping, one session)
MaxRaceArrivals == 5
\* requests that arrive in one run of SpecMedia (overlapping, both media asked for)
MaxMediaArrivals == 2
\* requests that arrive in one run of SpecErrors (overlapping, any session)
MaxErrorArrivals == 2
\* requests that arrive in one run of SpecNarration (overlapping, audio asked for)
MaxNarrationArrivals == 2
\* the longest retrieval result handed to _is_relevant in SpecCalls
MaxResults == 3
\* the longest conversation history handed to _generate_text in SpecCalls
MaxHistoryLen == 7

Slots == 1..NumSlots
Sessions == 1..NumSessions
NONE == "None"

(* ------------------------------- texts --------------------------------- *)
\* A text is a sequence of one-character strings.  "*" stands for an emoji
\* code point; like ":" and ")" it is outside the class the cleaning pass keeps.
LowerCase ==
    <<"a", "b", "c", "d", "e", "f", "g", "h", "i", "j", "k", "l", "m",
      "n", "o", "p", "q", "r", "s", "t", "u", "v", "w", "x", "y", "z">>
UpperCase ==
    <<"A", "B", "C", "D", "E", "F", "G", "H", "I", "J", "K", "L", "M",
      "N", "O", "P", "Q", "R", "S", "T", "U", "V", "W", "X", "Y", "Z">>
Digits == {"0", "1", "2", "3", "4", "5", "6", "7", "8", "9"}
Range(f) == {f[i] : i \in DOMAIN f}
\* the characters the regex class \w matches
Letters == Range(LowerCase) \cup Range(UpperCase) \cup Digits \cup {"_"}
Whitespace == {" "}
KeptPunctuation == {".", ",", "!", "?", "'", "\"", "-"}

RECURSIVE Str(_)
Str(t) == IF t = <<>> THEN "" ELSE Head(t) \o Str(Tail(t))

\* request.question of the k-th request to arrive: a fresh token per request
QuestionOf(k) == <<"q", ToString(k)>>

\* config.UNKNOWN_QUERY_RESPONSE and the other rows of `fallbacks`, abridged
UNKNOWN_QUERY_RESPONSE == <<"W", "h", "o", "a", "!", "*">>
fallbacks ==
    [l \in {"en", "es", "fr", "de", "hi"} |->
        CASE l = "en" -> UNKNOWN_QUERY_RESPONSE
          [] l = "es" -> <<"A", "y", "!", "*">>
          [] l = "fr" -> <<"N", "o", "n", "!", "*">>
          [] l = "de" -> <<"N", "a", "!", "*">>
          [] l = "hi" -> <<"h", "a", "!", "*">>]

\* mutant of _get_fallback_message: no default for a missing code
_get_fallback_message_NoDefault(language) ==
    IF language \in DOMAIN fallbacks THEN fallbacks[language] ELSE <<>>

\* fallbacks.get(language, fallbacks["en"])
_get_fallback_message(language) ==
    IF language \in DOMAIN fallbacks THEN fallbacks[language] ELSE fallbacks["en"]

\* "Sorry, text generation is not available. ..."
TEXT_UNAVAILABLE == <<"S", "r", "y", ".">>
\* "Oops! My wit machine broke down. Try asking again! <emoji> (Error: ...)"
TEXT_APOLOGY == <<"O", "o", "p", "s", "!", "*">>
\* what the provider may answer: plain, with an emoji, nothing but symbols
ProviderAnswers == {<<"O", "k">>, <<"O", "k", "*">>, <<":", ")">>}

\* re.sub(r'[^\w\s.,!?\'\"-]', '', text)
IsKept(c) == c \in Letters \cup Whitespace \cup KeptPunctuation
clean_text(text) == SelectSeq(text, IsKept)

\* hashlib.md5(s.encode()).hexdigest(): injective on the texts of the model
md5(s) == "md5(" \o s \o ")"

(* ----------------------------- retrieval ------------------------------- *)
\* what processor.semantic_search may return: (chunk, meta, score) triples,
\* scores in hundredths
Chunk(c, s, n) == [chunk |-> c, source |-> s, score |-> n]
SearchResults ==
    { <<>>,
      <<Chunk("c1", "alice.pdf", 30), Chunk("c2", "gulliver.pdf", 20)>>,
      <<Chunk("c1", "alice.pdf", 60), Chunk("c2", "gulliver.pdf", 40)>> }

RECURSIVE SumScores(_)
SumScores(results) ==
    IF results = <<>> THEN 0 ELSE Head(results).score + SumScores(Tail(results))

\* the relevance threshold 0.25, in hundredths
RELEVANCE_THRESHOLD == 25

\* mutant of _is_relevant: a mean equal to the threshold passes
_is_relevant_AtLeast(results) ==
    IF results = <<>> THEN FALSE
    ELSE SumScores(results) >= RELEVANCE_THRESHOLD * Len(results)

\* avg_score > 0.25: sum / len > threshold, written without the division
_is_relevant(results) ==
    IF results = <<>> THEN FALSE
    ELSE SumScores(results) > RELEVANCE_THRESHOLD * Len(results)

\* mutant of SourcesOf: the entries come out in reverse rank order
SourcesOf_Reversed(results) ==
    [i \in 1..Len(results) |->
        [text |-> results[Len(results) + 1 - i].chunk \o "...",
         source |-> results[Len(results) + 1 - i].source,
         score |-> results[Len(results) + 1 - i].score]]

\* the `sources` comprehension: one entry per retrieved chunk, in rank order
SourcesOf(results) ==
    [i \in 1..Len(results) |->
        [text |-> results[i].chunk \o "...",
         source |-> results[i].source,
         score |-> results[i].score]]

(* --------------------------- image prompt ------------------------------ *)
\* str.lower(), one character
LowerOf ==
    [c \in Range(UpperCase) |->
        LowerCase[CHOOSE i \in DOMAIN UpperCase : UpperCase[i] = c]]
Lower(c) == IF c \in DOMAIN LowerOf THEN LowerOf[c] ELSE c
LowerText(t) == [i \in 1..Len(t) |-> Lower(t[i])]

\* `key in combined`: key occurs as a substring
Occurs(key, text) ==
    IF Len(key) > Len(text) THEN FALSE
    ELSE \E i \in 1..(Len(text) + 1 - Len(key)) :
            SubSeq(text, i, i + Len(key) - 1) = key

\* the `keywords` dict of _create_image_prompt, in definition order
keywords ==
    <<
      [key |-> <<"a", "l", "i", "c", "e">>,
       desc |-> "Alice, young Victorian girl in blue dress with white apron"],
      [key |-> <<"w", "o", "n", "d", "e", "r", "l", "a", "n", "d">>,
       desc |-> "magical Wonderland with strange creatures and talking animals"],
      [key |-> <<"r", "a", "b", "b", "i", "t">>,
       desc |-> "white rabbit wearing waistcoat with pocket watch, running"],
      [key |-> <<"q", "u", "e", "e", "n">>,
       desc |-> "Queen of Hearts with playing card soldiers, red and black"],
      [key |-> <<"h", "a", "t", "t", "e", "r">>,
       desc |-> "Mad Hatter at tea party with oversized hat, teacups everywhere"],
      [key |-> <<"c", "h", "e", "s", "h", "i", "r", "e">>,
       desc |-> "Cheshire Cat with wide grin, purple stripes, disappearing"],
      [key |-> <<"c", "a", "t", "e", "r", "p", "i", "l", "l", "a", "r">>,
       desc |-> "blue caterpillar smoking hookah on giant mushroom"],
      [key |-> <<"g", "u", "l", "l", "i", "v", "e", "r">>,
       desc |-> "Gulliver the explorer in 18th century clothing"],
      [key |-> <<"l", "i", "l", "l", "i", "p", "u", "t">>,
       desc |-> "tiny Lilliputian people, miniature buildings, giant human"],
      [key |-> <<"g", "i", "a", "n", "t">>,
       desc |-> "enormous giants, Brobdingnagians, tiny human"],
      [key |-> <<"t", "r", "a", "v", "e", "l">>,
       desc |-> "sailing ship, ocean voyage, exotic lands"],
      [key |-> <<"t", "e", "a", " ", "p", "a", "r", "t", "y">>,
       desc |-> "mad tea party with March Hare, Dormouse, chaotic table setting"],
      [key |-> <<"a", "r", "a", "b", "i", "a", "n">>,
       desc |-> "Arabian Nights, middle eastern palace, ornate decorations"],
      [key |-> <<"a", "l", "a", "d", "d", "i", "n">>,
       desc |-> "Aladdin with magic lamp, genie, flying carpet"],
      [key |-> <<"s", "i", "n", "b", "a", "d">>,
       desc |-> "Sinbad the sailor, ship, sea monsters"],
      [key |-> <<"s", "c", "h", "e", "h", "e", "r", "a", "z", "a", "d", "e">>,
       desc |-> "Scheherazade storytelling, sultan, Arabian palace"],
      [key |-> <<"g", "e", "n", "i", "e">>,
       desc |-> "magical genie emerging from lamp, smoke, wishes"]
    >>

\* the `style` suffix of _create_image_prompt
IMAGE_STYLE == "vintage storybook illustration, detailed ink drawing with watercolor, whimsical fantasy art, Arthur Rackham style, classic children's literature, intricate details, magical atmosphere"

\* found[:3]
IMAGE_MAX_ELEMENTS == 3

RECURSIVE JoinComma(_)
JoinComma(ds) ==
    IF ds = <<>> THEN ""
    ELSE IF Len(ds) = 1 THEN ds[1]
    ELSE ds[1] \o ", " \o JoinComma(Tail(ds))

RECURSIVE FoundFrom(_, _)
FoundFrom(i, combined) ==
    IF i > Len(keywords) THEN <<>>
    ELSE IF Occurs(keywords[i].key, combined)
         THEN <<keywords[i].desc>> \o FoundFrom(i + 1, combined)
         ELSE FoundFrom(i + 1, combined)

\* mutant of _create_image_prompt: the last three matches are kept (found[-3:])
_create_image_prompt_LastThree(question, answer) ==
    LET combined == LowerText(question \o <<" ">> \o answer)
        found == FoundFrom(1, combined)
        scene == IF found # <<>>
                 THEN JoinComma(SubSeq(found,
                          IF Len(found) < IMAGE_MAX_ELEMENTS THEN 1
                          ELSE Len(found) - IMAGE_MAX_ELEMENTS + 1, Len(found)))
                 ELSE "classic storybook scene"
    IN  scene \o ", " \o IMAGE_STYLE

\* combined = (question + " " + answer).lower(); found = [desc for each key of
\* the table, in its order, that is in combined]; ", ".join(found[:3]) or the
\* placeholder; f"{scene}, {style}"
_create_image_prompt(question, answer) ==
    LET combined == LowerText(question \o <<" ">> \o answer)
        found == FoundFrom(1, combined)
        scene == IF found # <<>>
                 THEN JoinComma(SubSeq(found, 1,
                          IF Len(found) < IMAGE_MAX_ELEMENTS THEN Len(found)
                          ELSE IMAGE_MAX_ELEMENTS))
                 ELSE "classic storybook scene"
    IN  scene \o ", " \o IMAGE_STYLE

\* f"/static/images/{md5(prompt)}.png" and f"/static/audio/{md5(clean_text)}.mp3"
ImageUrl(prompt) == "/static/images/" \o md5(prompt) \o ".png"
AudioUrl(clean) == "/static/audio/" \o md5(Str(clean)) \o ".mp3"

\* clean_text[:500]
AUDIO_TEXT_LIMIT == 500
Truncate(t, n) == IF Len(t) <= n THEN t ELSE SubSeq(t, 1, n)

\* "eleven_multilingual_v2" if language != "en" else "eleven_monolingual_v1"
ModelId(language) ==
    IF language # "en" THEN "eleven_multilingual_v2" ELSE "eleven_monolingual_v1"

(* --------------------------- prompt composer --------------------------- *)
\* A prompt is a sequence of parts; the fixed wording of a part is one token.
\* config.SUPPORTED_LANGUAGES: language code -> display name
SUPPORTED_LANGUAGES ==
    [l \in {"en", "es", "fr", "hi"} |->
        CASE l = "en" -> "English"
          [] l = "es" -> "Spanish"
          [] l = "fr" -> "French"
          [] l = "hi" -> "Hindi"]

\* config.SUPPORTED_LANGUAGES.get(language, "English")
LangName(language) ==
    IF language \in DOMAIN SUPPORTED_LANGUAGES
    THEN SUPPORTED_LANGUAGES[language] ELSE "English"

\* mutant of LangInstruction: only the codes of the table get an instruction
LangInstruction_KnownOnly(language) ==
    IF language # "en" /\ language \in DOMAIN SUPPORTED_LANGUAGES
    THEN <<"RESPOND_ENTIRELY_IN", LangName(language), "NOT_IN_ENGLISH",
           "TRANSLATE_TO", LangName(language)>>
    ELSE <<>>

\* "**CRITICAL: You MUST respond ENTIRELY in {lang_name}. Do NOT use English.
\* Translate everything to {lang_name}.**" when language != "en", else ""
LangInstruction(language) ==
    IF language # "en"
    THEN <<"RESPOND_ENTIRELY_IN", LangName(language), "NOT_IN_ENGLISH",
           "TRANSLATE_TO", LangName(language)>>
    ELSE <<>>

\* config.STORYTELLER_PROMPT.format(context=..., question=...) + lang_instruction
BasePrompt(question, context, language) ==
    <<"STORYTELLER_PROMPT", context, question>> \o LangInstruction(language)

\* conversation_history[-6:]
HISTORY_WINDOW == 6
Window(history) ==
    IF HISTORY_WINDOW >= Len(history) THEN history
    ELSE SubSeq(history, Len(history) - HISTORY_WINDOW + 1, Len(history))

\* the OpenAI path: `messages`, the window's messages and then the prompt
OpenAIMessages(history, base_prompt) ==
    [i \in 1..Len(Window(history)) |->
        [role |-> Window(history)[i].role, content |-> Window(history)[i].content]]
    \o <<[role |-> "user", content |-> base_prompt]>>

\* "User" if msg["role"] == "user" else "Assistant"
RoleLabel(role) == IF role = "user" THEN "User" ELSE "Assistant"

\* mutant of GeminiPrompt: the window holds two messages less
GeminiPrompt_ShortWindow(history, base_prompt) ==
    [history_text |->
        IF Len(history) > HISTORY_WINDOW - 2
        THEN [i \in 1..(HISTORY_WINDOW - 2) |->
                 <<RoleLabel(history[Len(history) - (HISTORY_WINDOW - 2) + i].role),
                   history[Len(history) - (HISTORY_WINDOW - 2) + i].content>>]
        ELSE [i \in 1..Len(history) |->
                 <<RoleLabel(history[i].role), history[i].content>>],
     prompt |-> base_prompt]

\* the Gemini path: one prompt, "Previous conversation:" with a line
\* "{role}: {content}" per message of the window, then the prompt; without a
\* history the prompt alone
GeminiPrompt(history, base_prompt) ==
    [history_text |->
        IF history # <<>>
        THEN [i \in 1..Len(Window(history)) |->
                 <<RoleLabel(Window(history)[i].role), Window(history)[i].content>>]
        ELSE <<>>,
     prompt |-> base_prompt]

(* ------------------------------- state --------------------------------- *)
VARIABLES
    config,                 \* the values of config.py and of startup_event
    conversation_sessions,  \* session id -> reference to a list (0: key absent)
    lists,                  \* the heap of list objects, by reference
    files,                  \* media files on disk: path -> what was generated
    req,                    \* per request slot: the locals of chat / generate_response
    loop,                   \* the slot running on the event loop, 0 when it is free
    arrivals,               \* requests received so far
    completed,              \* per session, the turns in the order they were stored
    overlapped,             \* some request arrived while another was in flight
    written,                \* every (path, input) a media subtask has written so far
    call,                   \* one call of a helper function: its input and result
    transcription           \* the speech model, the decoder and the /api/transcribe request

vars == <<config, conversation_sessions, lists, files, req, loop, arrivals,
          completed, overlapped, written, call, transcription>>

Languages == {"en", "fr"}
Providers == {"openai", "gemini", "none"}
\* how an external call ends
CallOutcomes == {"ok", "non200", "timeout", "exception"}

Msg(role, content) == [role |-> role, content |-> content]

NoTask == [state |-> "none", outcome |-> "none", result |-> NONE]

IdleReq ==
    [pc |-> "idle", session_id |-> 0, question |-> <<>>,
     generate_image |-> FALSE, generate_audio |-> FALSE, language |-> "en",
     conversation_history |-> 0, results |-> <<>>, is_relevant |-> FALSE,
     sources |-> <<>>, answer |-> <<>>, image |-> NoTask, audio |-> NoTask,
     image_url |-> NONE, audio_url |-> NONE, exc |-> 0, status |-> 0,
     text_outcome |-> "none", text_calls |-> 0, image_calls |-> 0, audio_calls |-> 0, visited |-> <<>>,
     first |-> "none"]

Configs ==
    [MAX_CONVERSATION_HISTORY : 0..MaxTurnsBound,
     IMAGE_GENERATION_ENABLED : BOOLEAN,
     AUDIO_ENABLED : BOOLEAN,
     ELEVENLABS_API_KEY : BOOLEAN,
     LLM_PROVIDER : Providers,
     initialized : BOOLEAN]

\* no helper call is under study
NoCall == [fn |-> "none", args |-> <<>>, done |-> FALSE, ret |-> NONE]

\* no /api/transcribe request is in progress; whisper_model is the model loaded
\* by Storyteller.__init__ (or None), ffmpeg is what shutil.which("ffmpeg") finds
IdleTranscription(whisper_model, ffmpeg) ==
    [whisper_model |-> whisper_model, ffmpeg |-> ffmpeg, pc |-> "idle",
     upload |-> 0, file_size |-> 0, temp_file |-> FALSE, temp_path |-> NONE,
     text |-> <<>>, error |-> NONE, status |-> 0]

\* the server after startup, before any chat request
InitServer ==
    /\ conversation_sessions = [s \in Sessions |-> 0]
    /\ lists = <<>>
    /\ files = {}
    /\ written = {}
    /\ req = [r \in Slots |-> IdleReq]
    /\ loop = 0
    /\ arrivals = 0
    /\ completed = [s \in Sessions |-> <<>>]
    /\ overlapped = FALSE

InitState ==
    /\ InitServer
    /\ call = NoCall
    /\ transcription = IdleTranscription(TRUE, TRUE)

Init ==
    /\ config \in {c \in Configs : c.MAX_CONVERSATION_HISTORY = MaxTurnsBound}
    /\ InitState

InFlight(r) == req[r].pc \notin {"idle", "done", "failed"}
Set(r, fields) == [req EXCEPT ![r] = fields @@ @]

(* --------------------------- /api/chat handler ------------------------- *)
\* A request arrives and the event loop starts its handler.
ChatStart(r, sid, gi, ga, lang) ==
    /\ loop = 0
    /\ req[r].pc = "idle"
    /\ \A o \in Slots : o < r => req[o].pc # "idle"
    /\ req' = Set(r, [pc |-> "check", session_id |-> sid,
                      question |-> QuestionOf(arrivals + 1),
                      generate_image |-> gi, generate_audio |-> ga,
                      language |-> lang, visited |-> <<"Start">>])
    /\ loop' = r
    /\ arrivals' = arrivals + 1
    /\ overlapped' = (overlapped \/ \E o \in Slots : InFlight(o))
    /\ UNCHANGED <<config, call, transcription, conversation_sessions, lists, files, written, completed>>

\* if not processor or not processor.is_initialized(): raise HTTPException(503)
CheckIndex(r) ==
    /\ loop = r
    /\ req[r].pc = "check"
    /\ req' = IF config.initialized
              THEN Set(r, [pc |-> "session"])
              ELSE Set(r, [pc |-> "except", exc |-> 503])
    /\ UNCHANGED <<config, call, transcription, conversation_sessions, lists, files, written, loop, arrivals,
                   completed, overlapped>>

\* what `except Exception as e: raise HTTPException(status_code=500, ...)`
\* answers for an exception raised in the try block
StatusFor(exc) == 500

\* the except clause of chat: it also catches the HTTPException raised above
ExceptHandler(r) ==
    /\ loop = r
    /\ req[r].pc = "except"
    /\ req' = Set(r, [pc |-> "failed", status |-> StatusFor(req[r].exc)])
    /\ loop' = 0
    /\ UNCHANGED <<config, call, transcription, conversation_sessions, lists, files, written, arrivals,
                   completed, overlapped>>

\* mutant of GetSession: the user message is appended before the answer is made
GetSession_AppendsQuestion(r) ==
    /\ loop = r
    /\ req[r].pc = "session"
    /\ LET sid == req[r].session_id
           fresh == Len(lists) + 1
       IN  IF conversation_sessions[sid] = 0
           THEN /\ lists' = Append(lists, <<Msg("user", req[r].question)>>)
                /\ conversation_sessions' =
                       [conversation_sessions EXCEPT ![sid] = fresh]
                /\ req' = Set(r, [pc |-> "retrieve", conversation_history |-> fresh])
           ELSE /\ lists' = [lists EXCEPT ![conversation_sessions[sid]] =
                                 Append(@, Msg("user", req[r].question))]
                /\ req' = Set(r, [pc |-> "retrieve",
                                  conversation_history |-> conversation_sessions[sid]])
                /\ UNCHANGED conversation_sessions
    /\ UNCHANGED <<config, call, transcription, files, written, loop, arrivals,
                   completed, overlapped>>

\* get or create the session's list; conversation_history is a reference to it
GetSession(r) ==
    /\ loop = r
    /\ req[r].pc = "session"
    /\ LET sid == req[r].session_id
           fresh == Len(lists) + 1
       IN  IF conversation_sessions[sid] = 0
           THEN /\ lists' = Append(lists, <<>>)
                /\ conversation_sessions' =
                       [conversation_sessions EXCEPT ![sid] = fresh]
                /\ req' = Set(r, [pc |-> "retrieve", conversation_history |-> fresh])
           ELSE /\ req' = Set(r, [pc |-> "retrieve",
                                  conversation_history |-> conversation_sessions[sid]])
                /\ UNCHANGED <<lists, conversation_sessions>>
    /\ UNCHANGED <<config, call, transcription, files, written, loop, arrivals,
                   completed, overlapped>>

(* ------------------------- media subtasks ------------------------------ *)
\* open(filepath, "wb").write(data): the file at `path` now holds what was
\* generated from `input`
Written(path, input) ==
    {f \in files : f.path # path} \cup {[path |-> path, input |-> input]}

\* _generate_image up to its GET: the IMAGE_GENERATION_ENABLED check, the prompt
ImageBegin(question, answer) ==
    IF ~config.IMAGE_GENERATION_ENABLED
    THEN [state |-> "done", outcome |-> "disabled", result |-> NONE]
    ELSE [state |-> "waiting", outcome |-> "none", result |-> NONE]

\* mutant of ImageEnd: the status of the response is not looked at
ImageEnd_IgnoreStatus(question, answer, outcome) ==
    [state |-> "done", outcome |-> outcome,
     result |-> IF outcome \in {"ok", "non200"}
                THEN ImageUrl(_create_image_prompt(question, answer))
                ELSE NONE]

\* _generate_image from the response on: status 200 writes the file and returns
\* its URL, anything else (and any exception, by the except clause) returns None
ImageEnd(question, answer, outcome) ==
    [state |-> "done", outcome |-> outcome,
     result |-> IF outcome = "ok"
                THEN ImageUrl(_create_image_prompt(question, answer))
                ELSE NONE]

\* mutant of AudioBegin: the ELEVENLABS_API_KEY check is missing
AudioBegin_NoKeyCheck(text, language) ==
    IF ~config.AUDIO_ENABLED
    THEN [state |-> "done", outcome |-> "disabled", result |-> NONE]
    ELSE IF Len(clean_text(text)) = 0
    THEN [state |-> "done", outcome |-> "empty", result |-> NONE]
    ELSE [state |-> "waiting", outcome |-> "none", result |-> NONE]

\* mutant of AudioBegin: the empty check is missing
AudioBegin_NoEmptyCheck(text, language) ==
    IF ~config.ELEVENLABS_API_KEY
    THEN [state |-> "done", outcome |-> "no_key", result |-> NONE]
    ELSE IF ~config.AUDIO_ENABLED
    THEN [state |-> "done", outcome |-> "disabled", result |-> NONE]
    ELSE [state |-> "waiting", outcome |-> "none", result |-> NONE]

\* _generate_audio up to its POST: the key check, the AUDIO_ENABLED check, the
\* cleaning pass and the empty check
AudioBegin(text, language) ==
    IF ~config.ELEVENLABS_API_KEY
    THEN [state |-> "done", outcome |-> "no_key", result |-> NONE]
    ELSE IF ~config.AUDIO_ENABLED
    THEN [state |-> "done", outcome |-> "disabled", result |-> NONE]
    ELSE IF Len(clean_text(text)) = 0
    THEN [state |-> "done", outcome |-> "empty", result |-> NONE]
    ELSE [state |-> "waiting", outcome |-> "none", result |-> NONE]

\* mutant of AudioEnd: the file name is made of the text and the language
AudioEnd_PerLanguage(text, language, outcome) ==
    [state |-> "done", outcome |-> outcome,
     result |-> IF outcome = "ok"
                THEN "/static/audio/" \o md5(Str(clean_text(text)) \o language) \o ".mp3"
                ELSE NONE]

\* _generate_audio from the response on
AudioEnd(text, language, outcome) ==
    [state |-> "done", outcome |-> outcome,
     result |-> IF outcome = "ok" THEN AudioUrl(clean_text(text)) ELSE NONE]

\* the files after the image / audio response was handled
FilesAfterImage(question, answer, outcome) ==
    IF outcome = "ok"
    THEN LET prompt == _create_image_prompt(question, answer)
         IN  Written(ImageUrl(prompt), [text |-> prompt, model_id |-> "flux"])
    ELSE files

FilesAfterAudio(text, language, outcome) ==
    IF outcome = "ok"
    THEN Written(AudioUrl(clean_text(text)),
                 [text |-> Str(Truncate(clean_text(text), AUDIO_TEXT_LIMIT)),
                  model_id |-> ModelId(language)])
    ELSE files

Calls(task) == IF task.state = "waiting" THEN 1 ELSE 0

(* ----------------------- generate_response: start ---------------------- *)
\* results = self.processor.semantic_search(question, top_k=5)
\* is_relevant = self._is_relevant(results)
Retrieve(r, results) ==
    /\ loop = r
    /\ req[r].pc = "retrieve"
    /\ req' = Set(r, [pc |-> IF _is_relevant(results) THEN "full" ELSE "fallback",
                      results |-> results,
                      is_relevant |-> _is_relevant(results),
                      visited |-> Append(req[r].visited, "Retrieve")])
    /\ UNCHANGED <<config, call, transcription, conversation_sessions, lists, files, written, loop, arrivals,
                   completed, overlapped>>

\* processor.semantic_search raises: the exception leaves generate_response and
\* reaches the except clause of chat
RetrieveRaises(r) ==
    /\ loop = r
    /\ req[r].pc = "retrieve"
    /\ req' = Set(r, [pc |-> "except", exc |-> 500,
                      visited |-> Append(req[r].visited, "Retrieve")])
    /\ UNCHANGED <<config, call, transcription, conversation_sessions, lists, files, written, loop, arrivals,
                   completed, overlapped>>

(* ----------------------- generate_response: Fallback ------------------- *)
\* mutant of FallbackBegin: the fallback message is handed on to text generation
FallbackBegin_AsksProvider(r) ==
    /\ loop = r
    /\ req[r].pc = "fallback"
    /\ req' = Set(r, [pc |-> "text",
                      answer |-> _get_fallback_message(req[r].language),
                      visited |-> Append(req[r].visited, "Fallback")])
    /\ UNCHANGED <<config, call, transcription, conversation_sessions, lists, files, written, loop, arrivals,
                   completed, overlapped>>

\* mutant of FallbackBegin: the English message whatever the language
FallbackBegin_English(r) ==
    /\ loop = r
    /\ req[r].pc = "fallback"
    /\ req' = Set(r, [pc |-> "fb_image",
                      answer |-> UNKNOWN_QUERY_RESPONSE,
                      visited |-> Append(req[r].visited, "Fallback")])
    /\ UNCHANGED <<config, call, transcription, conversation_sessions, lists, files, written, loop, arrivals,
                   completed, overlapped>>

\* fallback = self._get_fallback_message(language); image_url = audio_url = None
FallbackBegin(r) ==
    /\ loop = r
    /\ req[r].pc = "fallback"
    /\ req' = Set(r, [pc |-> "fb_image",
                      answer |-> _get_fallback_message(req[r].language),
                      visited |-> Append(req[r].visited, "Fallback")])
    /\ UNCHANGED <<config, call, transcription, conversation_sessions, lists, files, written, loop, arrivals,
                   completed, overlapped>>

\* if generate_image and config.IMAGE_GENERATION_ENABLED:
\*     image_url = await self._generate_image(question, fallback)
FallbackImage(r) ==
    /\ loop = r
    /\ req[r].pc = "fb_image"
    /\ IF req[r].generate_image /\ config.IMAGE_GENERATION_ENABLED
       THEN LET t == ImageBegin(req[r].question, req[r].answer)
            IN  /\ req' = Set(r, [pc |-> "fb_image_wait", image |-> t,
                                  image_calls |-> req[r].image_calls + Calls(t)])
                /\ loop' = 0
       ELSE /\ req' = Set(r, [pc |-> "fb_audio"])
            /\ UNCHANGED loop
    /\ UNCHANGED <<config, call, transcription, conversation_sessions, lists, files, written, arrivals,
                   completed, overlapped>>

\* the image endpoint answers (or the 30 s timeout or an exception ends the call)
\* and the handler goes on
FallbackImageResponse(r, outcome) ==
    /\ loop = 0
    /\ req[r].pc = "fb_image_wait"
    /\ LET t == ImageEnd(req[r].question, req[r].answer, outcome)
       IN  req' = Set(r, [pc |-> "fb_audio", image |-> t, image_url |-> t.result])
    /\ files' = FilesAfterImage(req[r].question, req[r].answer, outcome)
    /\ written' = written \cup files'
    /\ loop' = r
    /\ UNCHANGED <<config, call, transcription, conversation_sessions, lists, arrivals, completed,
                   overlapped>>

\* if generate_audio and config.AUDIO_ENABLED:
\*     audio_url = await self._generate_audio(fallback, language)
FallbackAudio(r) ==
    /\ loop = r
    /\ req[r].pc = "fb_audio"
    /\ IF req[r].generate_audio /\ config.AUDIO_ENABLED
       THEN LET t == AudioBegin(req[r].answer, req[r].language)
            IN  IF t.state = "waiting"
                THEN /\ req' = Set(r, [pc |-> "fb_audio_wait", audio |-> t,
                                       audio_calls |-> req[r].audio_calls + 1])
                     /\ loop' = 0
                ELSE /\ req' = Set(r, [pc |-> "result", audio |-> t,
                                       audio_url |-> t.result])
                     /\ UNCHANGED loop
       ELSE /\ req' = Set(r, [pc |-> "result"])
            /\ UNCHANGED loop
    /\ UNCHANGED <<config, call, transcription, conversation_sessions, lists, files, written, arrivals,
                   completed, overlapped>>

FallbackAudioResponse(r, outcome) ==
    /\ loop = 0
    /\ req[r].pc = "fb_audio_wait"
    /\ LET t == AudioEnd(req[r].answer, req[r].language, outcome)
       IN  req' = Set(r, [pc |-> "result", audio |-> t, audio_url |-> t.result])
    /\ files' = FilesAfterAudio(req[r].answer, req[r].language, outcome)
    /\ written' = written \cup files'
    /\ loop' = r
    /\ UNCHANGED <<config, call, transcription, conversation_sessions, lists, arrivals, completed,
                   overlapped>>

(* --------------------- generate_response: FullPipeline ----------------- *)
\* context and sources are built from the retrieved chunks
FullBegin(r) ==
    /\ loop = r
    /\ req[r].pc = "full"
    /\ req' = Set(r, [pc |-> "text", sources |-> SourcesOf(req[r].results),
                      visited |-> Append(req[r].visited, "FullPipeline")])
    /\ UNCHANGED <<config, call, transcription, conversation_sessions, lists, files, written, loop, arrivals,
                   completed, overlapped>>

\* building context and sources raises (a chunk whose metadata has no "source"):
\* nothing in generate_response catches it
SourcesRaise(r) ==
    /\ loop = r
    /\ req[r].pc = "full"
    /\ req' = Set(r, [pc |-> "except", exc |-> 500,
                      visited |-> Append(req[r].visited, "FullPipeline")])
    /\ UNCHANGED <<config, call, transcription, conversation_sessions, lists, files, written, loop, arrivals,
                   completed, overlapped>>

\* _generate_text picks the configured provider, or has none
ProviderConfigured == config.LLM_PROVIDER \in {"openai", "gemini"}

\* _generate_text up to the provider call; with no provider it returns at once
GenerateText(r) ==
    /\ loop = r
    /\ req[r].pc = "text"
    /\ IF ProviderConfigured
       THEN /\ req' = Set(r, [pc |-> "text_wait",
                              text_calls |-> req[r].text_calls + 1])
            /\ loop' = 0
       ELSE /\ req' = Set(r, [pc |-> "tasks", answer |-> TEXT_UNAVAILABLE,
                              text_outcome |-> "unavailable"])
            /\ UNCHANGED loop
    /\ UNCHANGED <<config, call, transcription, conversation_sessions, lists, files, written, arrivals,
                   completed, overlapped>>

\* mutant of TextResult: whatever the call left behind is returned
TextResult_Raw(ok, text) == text

\* what _generate_text returns once the provider call has ended: the answer,
\* or, from its except clause, the apology string
TextResult(ok, text) == IF ok THEN text ELSE TEXT_APOLOGY

\* mutant of TextResponse: a failed provider call is tried again
TextResponse_Retry(r, ok, text) ==
    /\ loop = 0
    /\ req[r].pc = "text_wait"
    /\ req' = IF ok
              THEN Set(r, [pc |-> "tasks", answer |-> text, text_outcome |-> "ok"])
              ELSE Set(r, [pc |-> "text"])
    /\ loop' = r
    /\ UNCHANGED <<config, call, transcription, conversation_sessions, lists, files, written, arrivals,
                   completed, overlapped>>

\* mutant of TextResponse: the provider's exception leaves _generate_text
TextResponse_Propagates(r, ok, text) ==
    /\ loop = 0
    /\ req[r].pc = "text_wait"
    /\ req' = IF ok
              THEN Set(r, [pc |-> "tasks", answer |-> text, text_outcome |-> "ok"])
              ELSE Set(r, [pc |-> "except", exc |-> 500, text_outcome |-> "error"])
    /\ loop' = r
    /\ UNCHANGED <<config, call, transcription, conversation_sessions, lists, files, written, arrivals,
                   completed, overlapped>>

\* the provider call ends: it answers `text` (ok) or raises
TextResponse(r, ok, text) ==
    /\ loop = 0
    /\ req[r].pc = "text_wait"
    /\ req' = Set(r, [pc |-> "tasks", answer |-> TextResult(ok, text),
                      text_outcome |-> IF ok THEN "ok" ELSE "error"])
    /\ loop' = r
    /\ UNCHANGED <<config, call, transcription, conversation_sessions, lists, files, written, arrivals,
                   completed, overlapped>>

\* the task of one slot of `tasks`: the subtask's coroutine when it is enabled,
\* asyncio.create_task(asyncio.sleep(0)) otherwise
TaskFor(flag, enabled) ==
    IF flag /\ enabled
    THEN [state |-> "ready", outcome |-> "none", result |-> NONE]
    ELSE [state |-> "sleep", outcome |-> "none", result |-> NONE]

\* tasks = [...]; await asyncio.gather(*tasks, return_exceptions=True).  What
\* gather returns is kept in `image` and `audio`; `results` stays the search result.
CreateTasks(r) ==
    /\ loop = r
    /\ req[r].pc = "tasks"
    /\ req' = Set(r, [pc |-> "gather",
                      image |-> TaskFor(req[r].generate_image,
                                        config.IMAGE_GENERATION_ENABLED),
                      audio |-> TaskFor(req[r].generate_audio,
                                        config.AUDIO_ENABLED)])
    /\ loop' = 0
    /\ UNCHANGED <<config, call, transcription, conversation_sessions, lists, files, written, arrivals,
                   completed, overlapped>>

\* which of the two external calls of gather ended first (history variable)
FirstResolved(r, which) == IF req[r].first = "none" THEN which ELSE req[r].first

\* the event loop runs the image task up to its GET
ImageTaskRun(r) ==
    /\ loop = 0
    /\ req[r].pc = "gather"
    /\ req[r].image.state = "ready"
    /\ LET t == ImageBegin(req[r].question, req[r].answer)
       IN  req' = Set(r, [image |-> t,
                          image_calls |-> req[r].image_calls + Calls(t)])
    /\ UNCHANGED <<config, call, transcription, conversation_sessions, lists, files, written, loop, arrivals,
                   completed, overlapped>>

\* the image endpoint answers and the image task finishes
ImageTaskResponse(r, outcome) ==
    /\ loop = 0
    /\ req[r].pc = "gather"
    /\ req[r].image.state = "waiting"
    /\ req' = Set(r, [image |-> ImageEnd(req[r].question, req[r].answer, outcome),
                      first |-> FirstResolved(r, "image")])
    /\ files' = FilesAfterImage(req[r].question, req[r].answer, outcome)
    /\ written' = written \cup files'
    /\ UNCHANGED <<config, call, transcription, conversation_sessions, lists, loop, arrivals,
                   completed, overlapped>>

\* the event loop runs the audio task up to its POST
AudioTaskRun(r) ==
    /\ loop = 0
    /\ req[r].pc = "gather"
    /\ req[r].audio.state = "ready"
    /\ LET t == AudioBegin(req[r].answer, req[r].language)
       IN  req' = Set(r, [audio |-> t,
                          audio_calls |-> req[r].audio_calls + Calls(t)])
    /\ UNCHANGED <<config, call, transcription, conversation_sessions, lists, files, written, loop, arrivals,
                   completed, overlapped>>

\* the narration endpoint answers and the audio task finishes
AudioTaskResponse(r, outcome) ==
    /\ loop = 0
    /\ req[r].pc = "gather"
    /\ req[r].audio.state = "waiting"
    /\ req' = Set(r, [audio |-> AudioEnd(req[r].answer, req[r].language, outcome),
                      first |-> FirstResolved(r, "audio")])
    /\ files' = FilesAfterAudio(req[r].answer, req[r].language, outcome)
    /\ written' = written \cup files'
    /\ UNCHANGED <<config, call, transcription, conversation_sessions, lists, loop, arrivals,
                   completed, overlapped>>

\* a placeholder task, asyncio.sleep(0), finishes with None
SleepDone == [state |-> "done", outcome |-> "disabled", result |-> NONE]

ImageSleepRun(r) ==
    /\ loop = 0
    /\ req[r].pc = "gather"
    /\ req[r].image.state = "sleep"
    /\ req' = Set(r, [image |-> SleepDone])
    /\ UNCHANGED <<config, call, transcription, conversation_sessions, lists, files, written, loop, arrivals,
                   completed, overlapped>>

AudioSleepRun(r) ==
    /\ loop = 0
    /\ req[r].pc = "gather"
    /\ req[r].audio.state = "sleep"
    /\ req' = Set(r, [audio |-> SleepDone])
    /\ UNCHANGED <<config, call, transcription, conversation_sessions, lists, files, written, loop, arrivals,
                   completed, overlapped>>

\* results[i] if not isinstance(results[i], Exception) and results[i] is not None
\* else None
MediaField(task) == IF task.result # NONE THEN task.result ELSE NONE

\* mutant of GatherJoin: the handler goes on as soon as one task is done
GatherJoin_FirstDone(r) ==
    /\ loop = 0
    /\ req[r].pc = "gather"
    /\ req[r].image.state = "done" \/ req[r].audio.state = "done"
    /\ req' = Set(r, [pc |-> "result",
                      image_url |-> MediaField(req[r].image),
                      audio_url |-> MediaField(req[r].audio)])
    /\ loop' = r
    /\ UNCHANGED <<config, call, transcription, conversation_sessions, lists, files, written, arrivals,
                   completed, overlapped>>

\* gather returns once both tasks are done; the handler reads the two slots
GatherJoin(r) ==
    /\ loop = 0
    /\ req[r].pc = "gather"
    /\ req[r].image.state = "done"
    /\ req[r].audio.state = "done"
    /\ req' = Set(r, [pc |-> "result",
                      image_url |-> MediaField(req[r].image),
                      audio_url |-> MediaField(req[r].audio)])
    /\ loop' = r
    /\ UNCHANGED <<config, call, transcription, conversation_sessions, lists, files, written, arrivals,
                   completed, overlapped>>

(* ------------------- /api/chat handler: after the await ---------------- *)
\* conversation_history.append(user); conversation_history.append(assistant):
\* the list object is changed in place, for every holder of the reference
AppendTurn(r) ==
    /\ loop = r
    /\ req[r].pc = "result"
    /\ lists' = [lists EXCEPT ![req[r].conversation_history] =
                     @ \o <<Msg("user", req[r].question),
                            Msg("assistant", req[r].answer)>>]
    /\ req' = Set(r, [pc |-> "trim", visited |-> Append(req[r].visited, "Assemble")])
    /\ UNCHANGED <<config, call, transcription, conversation_sessions, files, written, loop, arrivals,
                   completed, overlapped>>

\* mutant of SliceLast: the slice keeps one message less
SliceLast_OneLess(history, n) ==
    IF n = 0 \/ n - 1 >= Len(history) THEN history
    ELSE SubSeq(history, Len(history) - (n - 1) + 1, Len(history))

\* the Python slice history[-n:]; -0 is 0, so history[-0:] is the whole list
SliceLast(history, n) ==
    IF n = 0 \/ n >= Len(history) THEN history
    ELSE SubSeq(history, Len(history) - n + 1, Len(history))

\* len(conversation_history) > config.MAX_CONVERSATION_HISTORY * 2
OverLimit(history) == Len(history) > config.MAX_CONVERSATION_HISTORY * 2

\* if over the limit, conversation_history is rebound to a new, sliced list
TrimHistory(r) ==
    /\ loop = r
    /\ req[r].pc = "trim"
    /\ LET history == lists[req[r].conversation_history]
       IN  IF OverLimit(history)
           THEN /\ lists' = Append(lists,
                       SliceLast(history, config.MAX_CONVERSATION_HISTORY * 2))
                /\ req' = Set(r, [pc |-> "store",
                                  conversation_history |-> Len(lists) + 1])
           ELSE /\ req' = Set(r, [pc |-> "store"])
                /\ UNCHANGED lists
    /\ UNCHANGED <<config, call, transcription, conversation_sessions, files, written, loop, arrivals,
                   completed, overlapped>>

\* conversation_sessions[session_id] = conversation_history
StoreSession(r) ==
    /\ loop = r
    /\ req[r].pc = "store"
    /\ conversation_sessions' =
           [conversation_sessions EXCEPT ![req[r].session_id] =
                req[r].conversation_history]
    /\ completed' = [completed EXCEPT ![req[r].session_id] =
                         Append(@, <<req[r].question, req[r].answer>>)]
    /\ req' = Set(r, [pc |-> "respond"])
    /\ UNCHANGED <<config, call, transcription, lists, files, written, loop, arrivals, overlapped>>

\* a relative media URL is made absolute with the request's base URL
BASE_URL == "http://host"
Normalized(url) == IF url # NONE THEN BASE_URL \o url ELSE url

\* the URLs are normalized and ChatResponse(**result) is returned
ChatReturn(r) ==
    /\ loop = r
    /\ req[r].pc = "respond"
    /\ req' = Set(r, [pc |-> "done", status |-> 200,
                      image_url |-> Normalized(req[r].image_url),
                      audio_url |-> Normalized(req[r].audio_url),
                      visited |-> Append(req[r].visited, "Done")])
    /\ loop' = 0
    /\ UNCHANGED <<config, call, transcription, conversation_sessions, lists, files, written, arrivals,
                   completed, overlapped>>

\* the response has been sent and the handler's frame is gone
Release(r) ==
    /\ loop = 0
    /\ req[r].pc \in {"done", "failed"}
    /\ req' = [req EXCEPT ![r] = IdleReq]
    /\ UNCHANGED <<config, call, transcription, conversation_sessions, lists, files, written, loop, arrivals,
                   completed, overlapped>>

(* --------------------------- specifications ---------------------------- *)
\* every step of a handler after its start
Handle(r) ==
    \/ CheckIndex(r)
    \/ ExceptHandler(r)
    \/ GetSession(r)
    \/ \E results \in SearchResults : Retrieve(r, results)
    \/ FallbackBegin(r)
    \/ FallbackImage(r)
    \/ \E outcome \in CallOutcomes : FallbackImageResponse(r, outcome)
    \/ FallbackAudio(r)
    \/ \E outcome \in CallOutcomes : FallbackAudioResponse(r, outcome)
    \/ FullBegin(r)
    \/ GenerateText(r)
    \/ \E text \in ProviderAnswers : TextResponse(r, TRUE, text)
    \/ TextResponse(r, FALSE, <<>>)
    \/ CreateTasks(r)
    \/ ImageTaskRun(r)
    \/ \E outcome \in CallOutcomes : ImageTaskResponse(r, outcome)
    \/ AudioTaskRun(r)
    \/ \E outcome \in CallOutcomes : AudioTaskResponse(r, outcome)
    \/ ImageSleepRun(r)
    \/ AudioSleepRun(r)
    \/ GatherJoin(r)
    \/ AppendTurn(r)
    \/ TrimHistory(r)
    \/ StoreSession(r)
    \/ ChatReturn(r)
    \/ Release(r)

\* Spec: requests of session 1 with every combination of flags and languages,
\* one in flight at a time
Arrive(r) ==
    /\ arrivals < MaxArrivals
    /\ \A o \in Slots : req[o].pc = "idle"
    /\ \E gi \in BOOLEAN, ga \in BOOLEAN, lang \in Languages :
           ChatStart(r, 1, gi, ga, lang)

Next == \E r \in Slots : Arrive(r) \/ Handle(r)

Spec == Init /\ [][Next]_vars

\* The event loop runs every handler and task that can run, and every external
\* call ends (the media calls carry a 30 s timeout).
FairSpec == Spec /\ \A r \in Slots : WF_vars(Handle(r))

(* The session store under overlapping requests: media generation is switched
   off and no provider is configured, so a handler suspends only in gather. *)
StoreConfigs ==
    {c \in Configs : /\ ~c.IMAGE_GENERATION_ENABLED
                     /\ ~c.AUDIO_ENABLED
                     /\ ~c.ELEVENLABS_API_KEY
                     /\ c.LLM_PROVIDER = "none"
                     /\ c.initialized}

InitStore ==
    /\ config \in StoreConfigs
    /\ InitState

\* the steps a handler can take under a configuration of StoreConfigs
HandleStore(r) ==
    \/ CheckIndex(r)
    \/ GetSession(r)
    \/ \E results \in SearchResults : Retrieve(r, results)
    \/ FallbackBegin(r)
    \/ FallbackImage(r)
    \/ FallbackAudio(r)
    \/ FullBegin(r)
    \/ GenerateText(r)
    \/ CreateTasks(r)
    \/ ImageSleepRun(r)
    \/ AudioSleepRun(r)
    \/ GatherJoin(r)
    \/ AppendTurn(r)
    \/ TrimHistory(r)
    \/ StoreSession(r)
    \/ ChatReturn(r)
    \/ Release(r)

\* requests arrive whenever the event loop is free, also while others are in flight
ArriveStore(r) ==
    /\ arrivals < MaxStoreArrivals
    /\ \E sid \in Sessions : ChatStart(r, sid, FALSE, FALSE, "en")

NextStore == \E r \in Slots : ArriveStore(r) \/ HandleStore(r)

SpecStore == InitStore /\ [][NextStore]_vars

\* Overlapping requests of one session, the history limit at its largest value
InitRace ==
    /\ InitStore
    /\ config.MAX_CONVERSATION_HISTORY = MaxTurnsBound

ArriveRace(r) ==
    /\ arrivals < MaxRaceArrivals
    /\ ChatStart(r, 1, FALSE, FALSE, "en")

NextRace == \E r \in Slots : ArriveRace(r) \/ HandleStore(r)

SpecRace == InitRace /\ [][NextRace]_vars

(* ----------------------------- session store --------------------------- *)
Min(a, b) == IF a <= b THEN a ELSE b

\* the history the store holds for a session
Stored(s) ==
    IF conversation_sessions[s] = 0 THEN <<>> ELSE lists[conversation_sessions[s]]

\* the messages of a sequence of turns, oldest first
RECURSIVE Flatten(_)
Flatten(turns) ==
    IF turns = <<>> THEN <<>>
    ELSE <<Msg("user", Head(turns)[1]), Msg("assistant", Head(turns)[2])>>
         \o Flatten(Tail(turns))

\* the last n elements of a sequence
LastN(seq, n) ==
    IF n >= Len(seq) THEN seq ELSE SubSeq(seq, Len(seq) - n + 1, Len(seq))

\* what a session should hold after the turns completed so far
Expected(s) ==
    LastN(Flatten(completed[s]),
          Min(2 * Len(completed[s]), 2 * config.MAX_CONVERSATION_HISTORY))

Quiescent == \A r \in Slots : ~InFlight(r)

\* no handler is between its append and its store
AtRest == \A r \in Slots : req[r].pc \notin {"trim", "store"}

\* C1: once all requests have completed, the stored history of every session is
\* the most recent min(2k, 2*MAX_CONVERSATION_HISTORY) messages of its k completed
\* turns, in completion order, however the requests interleaved: no turn is lost.
C1_NoTurnLost ==
    Quiescent => \A s \in Sessions : Stored(s) = Expected(s)

\* C2: at rest, every session's history has at most 2*MAX_CONVERSATION_HISTORY
\* messages, for every configured limit from 0 up.
C2_HistoryBounded ==
    AtRest => \A s \in Sessions :
                  Len(Stored(s)) <= 2 * config.MAX_CONVERSATION_HISTORY

\* C3: after k requests that did not overlap, a session holds exactly
\* min(2k, 2*MAX_CONVERSATION_HISTORY) messages, an even number, and they are the
\* most recent turns in their original order.
C3_SequentialTurns ==
    (Quiescent /\ ~overlapped) =>
        \A s \in Sessions :
            /\ Len(Stored(s)) =
                   Min(2 * Len(completed[s]), 2 * config.MAX_CONVERSATION_HISTORY)
            /\ Len(Stored(s)) % 2 = 0
            /\ Stored(s) = Expected(s)

(* ------------------------------ pipeline ------------------------------- *)
ImageEnabled(r) == req[r].generate_image /\ config.IMAGE_GENERATION_ENABLED
AudioEnabled(r) ==
    req[r].generate_audio /\ config.AUDIO_ENABLED /\ config.ELEVENLABS_API_KEY

\* generate_response has returned its result to chat
Returned(r) == req[r].pc \in {"result", "trim", "store", "respond", "done"}
Failed(r) == req[r].pc \in {"except", "failed"}

\* C4: in both branches and for every combination of subtask outcomes, a media
\* field of the result is non-null exactly when its own subtask succeeded, and a
\* request that started a subtask returns a result (status 200), never an error.
C4_MediaIsolated ==
    \A r \in Slots :
        /\ Returned(r) =>
               /\ (req[r].image_url # NONE) <=> (req[r].image.outcome = "ok")
               /\ (req[r].audio_url # NONE) <=> (req[r].audio.outcome = "ok")
        /\ Failed(r) => (req[r].image.state = "none" /\ req[r].audio.state = "none")
        /\ req[r].pc = "done" => req[r].status = 200

\* the Fallback branch, image answered non-200, audio succeeded
C4_Witness ==
    \E r \in Slots :
        /\ req[r].pc = "done"
        /\ ~req[r].is_relevant
        /\ req[r].image.outcome = "non200"
        /\ req[r].audio.outcome = "ok"
        /\ req[r].image_url = NONE
        /\ req[r].audio_url # NONE

\* C5: with both subtasks enabled, in either branch, the audio subtask can start
\* while the image subtask's external call is still outstanding.
C5_SubtasksConcurrent ==
    \A r \in Slots :
        ( /\ ImageEnabled(r)
          /\ AudioEnabled(r)
          /\ req[r].image.state = "waiting"
          /\ req[r].audio.state \in {"none", "ready"}
          /\ loop = 0 )
        => ENABLED (AudioTaskRun(r) \/ FallbackAudio(r))

\* C6: a request that finds the index not initialized ends with status 503 and
\* has invoked neither retrieval nor text nor media generation.
C6_ServiceUnavailable ==
    \A r \in Slots :
        (~config.initialized /\ req[r].pc = "failed") =>
            /\ req[r].status = 503
            /\ req[r].visited = <<"Start">>
            /\ req[r].text_calls = 0
            /\ req[r].image_calls = 0
            /\ req[r].audio_calls = 0

FallbackPath == <<"Start", "Retrieve", "Fallback", "Assemble", "Done">>
FullPath == <<"Start", "Retrieve", "FullPipeline", "Assemble", "Done">>
IsPrefix(p, q) == Len(p) <= Len(q) /\ p = SubSeq(q, 1, Len(p))

C8_TextFailureAbsorbed ==
    \A r \in Slots :
        req[r].text_outcome \in {"unavailable", "error"} =>
            /\ ~Failed(r)
            /\ req[r].answer = IF req[r].text_outcome = "unavailable"
                               THEN TEXT_UNAVAILABLE ELSE TEXT_APOLOGY
            /\ Returned(r) =>
                   /\ ImageEnabled(r) => req[r].image_calls = 1
                   /\ AudioEnabled(r) => req[r].audio_calls = 1
            /\ req[r].pc = "done" =>
                   /\ req[r].status = 200
                   /\ req[r].is_relevant
                   /\ req[r].results # <<>>
                   /\ req[r].sources = SourcesOf(req[r].results)
                   /\ LastN(Stored(req[r].session_id), 2) =
                          <<Msg("user", req[r].question),
                            Msg("assistant", req[r].answer)>>

\* the provider call raised, both media calls were made, the request is Done
C8_Witness ==
    \E r \in Slots :
        /\ req[r].pc = "done"
        /\ req[r].text_outcome = "error"
        /\ req[r].image_calls = 1
        /\ req[r].audio_calls = 1

\* C9: a request calls the text provider at most once; after a failed call no
\* second call is made and the answer is the apology string.
C9_SingleProviderCall ==
    \A r \in Slots :
        /\ req[r].text_calls <= 1
        /\ req[r].text_outcome = "error" =>
               (req[r].text_calls = 1 /\ req[r].answer = TEXT_APOLOGY)

\* the one provider call of a finished request failed
C9_Witness ==
    \E r \in Slots :
        /\ req[r].pc = "done"
        /\ req[r].text_outcome = "error"
        /\ req[r].text_calls = 1
        /\ req[r].answer = TEXT_APOLOGY

\* C10: a disabled subtask (request flag false, configuration switch off, or for
\* audio no API key) makes no call and leaves its field None, in both branches,
\* and the other subtask runs and reports its own outcome.
C10_DisabledSubtask ==
    \A r \in Slots :
        /\ ~ImageEnabled(r) => (req[r].image_calls = 0 /\ req[r].image_url = NONE)
        /\ ~AudioEnabled(r) => (req[r].audio_calls = 0 /\ req[r].audio_url = NONE)
        /\ (Returned(r) /\ ~ImageEnabled(r) /\ AudioEnabled(r)
              /\ clean_text(req[r].answer) # <<>>) =>
               /\ req[r].audio_calls = 1
               /\ (req[r].audio_url # NONE) <=> (req[r].audio.outcome = "ok")
        /\ (Returned(r) /\ ~AudioEnabled(r) /\ ImageEnabled(r)) =>
               /\ req[r].image_calls = 1
               /\ (req[r].image_url # NONE) <=> (req[r].image.outcome = "ok")

\* audio is asked for and switched on but the API key is absent; the image is made
C10_Witness ==
    \E r \in Slots :
        /\ req[r].pc = "done"
        /\ req[r].generate_audio
        /\ config.AUDIO_ENABLED
        /\ ~config.ELEVENLABS_API_KEY
        /\ req[r].audio_calls = 0
        /\ req[r].audio_url = NONE
        /\ req[r].image_url # NONE

(* ------------------------------ assembly ------------------------------- *)
\* a subtask is resolved: it was skipped, or it has ended
Resolved(task) == task.state \in {"none", "done"}

\* some list of the heap holds the user message of request r
TurnAppended(r) ==
    \E i \in DOMAIN lists : \E j \in DOMAIN lists[i] :
        lists[i][j] = Msg("user", req[r].question)

\* C11: the result is assembled and the session is updated only after both media
\* subtasks have resolved, and whichever ended first, image_url carries the image
\* subtask's outcome and audio_url the audio subtask's outcome.
C11_AssembledAfterBoth ==
    \A r \in Slots :
        /\ Returned(r) =>
               /\ Resolved(req[r].image)
               /\ Resolved(req[r].audio)
               /\ req[r].image_url \in
                      {req[r].image.result, Normalized(req[r].image.result)}
               /\ req[r].audio_url \in
                      {req[r].audio.result, Normalized(req[r].audio.result)}
        /\ (InFlight(r) /\ ~Returned(r)) => ~TurnAppended(r)

\* the audio call ended first and failed, the image call ended second and
\* succeeded, and the turn is in the session
C11_Witness ==
    \E r \in Slots :
        /\ req[r].pc = "done"
        /\ req[r].first = "audio"
        /\ req[r].audio.outcome = "non200"
        /\ req[r].image.outcome = "ok"
        /\ req[r].audio_url = NONE
        /\ req[r].image_url # NONE
        /\ TurnAppended(r)

(* ------------------------------ branches ------------------------------- *)
\* C12: when the retrieval result is not relevant (empty, or mean score not above
\* 0.25) the result has is_relevant false, no sources, and the fallback message of
\* the requested language as its answer, whatever the media subtasks do.
C12_FallbackResult ==
    \A r \in Slots :
        (Returned(r) /\ ~_is_relevant(req[r].results)) =>
            /\ ~req[r].is_relevant
            /\ req[r].sources = <<>>
            /\ req[r].answer = fallbacks[req[r].language]

\* a French request whose chunks score exactly 0.25 on average; the image call
\* raised and the audio call succeeded
C12_Witness ==
    \E r \in Slots :
        /\ req[r].pc = "done"
        /\ req[r].language = "fr"
        /\ req[r].results # <<>>
        /\ SumScores(req[r].results) = RELEVANCE_THRESHOLD * Len(req[r].results)
        /\ req[r].image.outcome = "exception"
        /\ req[r].audio.outcome = "ok"
        /\ req[r].answer = fallbacks["fr"]

\* C13: when the retrieval result is relevant the result has is_relevant true and
\* sources holds one entry per retrieved chunk, in rank order, so it is not empty;
\* over all results, is_relevant is false exactly when sources is empty.
C13_SourcesPerChunk ==
    \A r \in Slots :
        Returned(r) =>
            /\ _is_relevant(req[r].results) =>
                   /\ req[r].is_relevant
                   /\ req[r].sources # <<>>
                   /\ Len(req[r].sources) = Len(req[r].results)
                   /\ \A i \in 1..Len(req[r].results) :
                          /\ req[r].sources[i].source = req[r].results[i].source
                          /\ req[r].sources[i].score = req[r].results[i].score
                          /\ req[r].sources[i].text =
                                 req[r].results[i].chunk \o "..."
            /\ ~req[r].is_relevant <=> (req[r].sources = <<>>)

\* a relevant request is Done with its two sources in rank order
C13_Witness ==
    \E r \in Slots :
        /\ req[r].pc = "done"
        /\ req[r].is_relevant
        /\ Len(req[r].sources) = 2
        /\ req[r].sources[1].source = "alice.pdf"
        /\ req[r].sources[2].source = "gulliver.pdf"

(* --------------------------- helper functions -------------------------- *)
\* SpecCalls: one call of a helper function; Init draws its input, the action
\* applies the function.
ScoreValues == {0, 20, 25, 30, 100}
ChunkInputs == {Chunk(c, "alice.pdf", n) : c \in {"c1", "c2"}, n \in ScoreValues}
ResultInputs == UNION {[1..n -> ChunkInputs] : n \in 0..MaxResults}

\* histories of up to MaxHistoryLen messages, any roles the handler stores, the
\* content of a message telling its position
HistoryInputs ==
    UNION {{[i \in 1..n |-> Msg(roles[i], <<"m", ToString(i)>>)] :
               roles \in [1..n -> {"user", "assistant"}]} : n \in 0..MaxHistoryLen}
\* language codes, in and out of the tables
LanguageInputs == {"en", "es", "fr", "de", "hi", "ja", "EN", ""}
QuestionInputs == {"who is alice?", "english, please"}
ContextInputs == {"", "chapter one"}

\* questions and answers for _create_image_prompt: with and without keywords,
\* in capitals, keywords out of table order, and pieces of a keyword
ImageQuestions ==
    { <<>>,
      <<"o", "k">>,
      <<"A", "l", "i", "c", "e">>,
      <<"a", "l", "i">>,
      <<"t", "e", "a">>,
      <<"g", "e", "n", "i", "e", " ", "g", "i", "a", "n", "t", " ",
        "q", "u", "e", "e", "n">> }
ImageAnswers ==
    { <<>>,
      <<"O", "k", "*">>,
      <<"c", "e">>,
      <<"p", "a", "r", "t", "y">>,
      <<"t", "r", "a", "v", "e", "l">>,
      <<"R", "A", "B", "B", "I", "T", " ", "a", "l", "i", "c", "e">> }

CallOf(fn, args) == [fn |-> fn, args |-> args, done |-> FALSE, ret |-> NONE]

InitCalls ==
    /\ config \in {c \in StoreConfigs : c.MAX_CONVERSATION_HISTORY = MaxTurnsBound}
    /\ InitServer
    /\ transcription = IdleTranscription(TRUE, TRUE)
    /\ \/ \E results \in ResultInputs : call = CallOf("_is_relevant", results)
       \/ \E language \in LanguageInputs :
              call = CallOf("_get_fallback_message", language)
       \/ \E q \in QuestionInputs, c \in ContextInputs, l \in LanguageInputs :
              call = CallOf("base_prompt",
                            [question |-> q, context |-> c, language |-> l])
       \/ \E history \in HistoryInputs : call = CallOf("history", history)
       \/ \E q \in ImageQuestions, a \in ImageAnswers :
              call = CallOf("_create_image_prompt", [question |-> q, answer |-> a])

Returns(value) ==
    /\ ~call.done
    /\ call' = [call EXCEPT !.done = TRUE, !.ret = value]
    /\ UNCHANGED <<config, conversation_sessions, lists, files, req, loop, arrivals,
                   completed, overlapped, written, transcription>>

Call_is_relevant ==
    /\ call.fn = "_is_relevant"
    /\ Returns(_is_relevant(call.args))

Call_get_fallback_message ==
    /\ call.fn = "_get_fallback_message"
    /\ Returns(_get_fallback_message(call.args))

\* _generate_text, the composition of base_prompt
Call_base_prompt ==
    /\ call.fn = "base_prompt"
    /\ Returns(BasePrompt(call.args.question, call.args.context,
                          call.args.language))

\* _generate_text, what either provider path sends for a history
Call_history ==
    /\ call.fn = "history"
    /\ Returns([openai |-> OpenAIMessages(call.args, <<"STORYTELLER_PROMPT">>),
                gemini |-> GeminiPrompt(call.args, <<"STORYTELLER_PROMPT">>)])

Call_create_image_prompt ==
    /\ call.fn = "_create_image_prompt"
    /\ Returns(_create_image_prompt(call.args.question, call.args.answer))

NextCalls ==
    \/ Call_is_relevant
    \/ Call_get_fallback_message
    \/ Call_base_prompt
    \/ Call_history
    \/ Call_create_image_prompt

SpecCalls == InitCalls /\ [][NextCalls]_vars

\* the sum of the scores' distances from the threshold
RECURSIVE DeviationSum(_)
DeviationSum(scores) ==
    IF scores = <<>> THEN 0
    ELSE (Head(scores) - RELEVANCE_THRESHOLD) + DeviationSum(Tail(scores))

ScoresOf(results) == [i \in 1..Len(results) |-> results[i].score]

\* C14: _is_relevant is false for an empty result and otherwise true exactly when
\* the mean of the scores is strictly above 0.25 (the scores lie above the
\* threshold on balance); it is a function of the scores alone.
C14_MeanAboveThreshold ==
    (call.fn = "_is_relevant" /\ call.done) =>
        call.ret = ( /\ call.args # <<>>
                     /\ DeviationSum(ScoresOf(call.args)) > 0 )

\* two chunks scoring 0.20 and 0.30: the mean is exactly 0.25, not relevant
C14_Witness ==
    /\ call.fn = "_is_relevant"
    /\ call.done
    /\ ScoresOf(call.args) = <<20, 30>>
    /\ call.ret = FALSE

(* ----------------------------- media files ----------------------------- *)
\* SpecMedia: overlapping requests that ask for both media, with both switched
\* on and no text provider configured.
MediaConfigs ==
    {c \in Configs : /\ c.IMAGE_GENERATION_ENABLED
                     /\ c.AUDIO_ENABLED
                     /\ c.ELEVENLABS_API_KEY
                     /\ c.LLM_PROVIDER = "none"
                     /\ c.initialized
                     /\ c.MAX_CONVERSATION_HISTORY = MaxTurnsBound}

InitMedia ==
    /\ config \in MediaConfigs
    /\ InitState

\* a media call of SpecMedia succeeds or is answered with an error status
MediaOutcomes == {"ok", "non200"}

HandleMedia(r) ==
    \/ CheckIndex(r)
    \/ GetSession(r)
    \/ \E results \in SearchResults : Retrieve(r, results)
    \/ FallbackBegin(r)
    \/ FallbackImage(r)
    \/ \E outcome \in MediaOutcomes : FallbackImageResponse(r, outcome)
    \/ FallbackAudio(r)
    \/ \E outcome \in MediaOutcomes : FallbackAudioResponse(r, outcome)
    \/ FullBegin(r)
    \/ GenerateText(r)
    \/ CreateTasks(r)
    \/ ImageTaskRun(r)
    \/ \E outcome \in MediaOutcomes : ImageTaskResponse(r, outcome)
    \/ AudioTaskRun(r)
    \/ \E outcome \in MediaOutcomes : AudioTaskResponse(r, outcome)
    \/ GatherJoin(r)
    \/ AppendTurn(r)
    \/ TrimHistory(r)
    \/ StoreSession(r)
    \/ ChatReturn(r)
    \/ Release(r)

ArriveMedia(r) ==
    /\ arrivals < MaxMediaArrivals
    /\ \E lang \in Languages : ChatStart(r, 1, TRUE, TRUE, lang)

NextMedia == \E r \in Slots : ArriveMedia(r) \/ HandleMedia(r)

SpecMedia == InitMedia /\ [][NextMedia]_vars

\* C15: whenever two media writes, of one request or of different and possibly
\* concurrent requests, went to the same path, the input submitted to the endpoint
\* was the same (audio: text and model variant; image: prompt).
C15_SamePathSameInput ==
    \A f \in written : \A g \in written :
        f.path = g.path => f.input = g.input

(* --------------------------- /api/transcribe --------------------------- *)
\* sizes of the uploaded recording, in bytes
UploadSizes == {0, 500, 999, 1000, 2000}
\* if file_size < 1000
MIN_AUDIO_BYTES == 1000
\* "Recording too short or empty. Please speak clearly for at least 1-2 seconds."
TOO_SHORT == <<"S", "h", "o", "r", "t", ".">>
\* "Sorry, I couldn't hear anything clearly. Please speak louder and try again."
NOT_HEARD == <<"H", "u", "h", "?">>
\* what whisper may put in result["text"]
HeardTexts == {<<>>, <<" ">>, <<" ", "h", "i", " ">>}

\* str.strip()
RECURSIVE LStrip(_)
LStrip(t) == IF t # <<>> /\ Head(t) \in Whitespace THEN LStrip(Tail(t)) ELSE t
RECURSIVE RStrip(_)
RStrip(t) ==
    IF t # <<>> /\ t[Len(t)] \in Whitespace
    THEN RStrip(SubSeq(t, 1, Len(t) - 1)) ELSE t
Strip(t) == RStrip(LStrip(t))

TrSet(fields) == fields @@ transcription
TrFrame ==
    UNCHANGED <<config, conversation_sessions, lists, files, req, loop, arrivals,
                completed, overlapped, written, call>>

\* the handler creates the temporary file (delete=False) and awaits audio.read()
TranscribeStart(size) ==
    /\ transcription.pc = "idle"
    /\ transcription' = TrSet([pc |-> "read", upload |-> size, temp_file |-> TRUE])
    /\ TrFrame

\* content is written and temp_path is set; if audio.read() raises, temp_path
\* stays None and the finally clause only closes the file
TranscribeRead(ok) ==
    /\ transcription.pc = "read"
    /\ transcription' =
           IF ok
           THEN TrSet([pc |-> "call", file_size |-> transcription.upload,
                       temp_path |-> "tmp"])
           ELSE TrSet([pc |-> "except", error |-> "read_error"])
    /\ TrFrame

\* transcribe_audio: `if not self.whisper_model: raise`, before its try block
TranscribeCall ==
    /\ transcription.pc = "call"
    /\ transcription' =
           IF ~transcription.whisper_model
           THEN TrSet([pc |-> "except", error |-> "whisper_not_initialized"])
           ELSE TrSet([pc |-> "size"])
    /\ TrFrame

\* the size check: a file under 1000 bytes returns the guidance string
TranscribeSize ==
    /\ transcription.pc = "size"
    /\ transcription' =
           IF transcription.file_size < MIN_AUDIO_BYTES
           THEN TrSet([pc |-> "respond", text |-> TOO_SHORT])
           ELSE TrSet([pc |-> "ffmpeg"])
    /\ TrFrame

\* shutil.which("ffmpeg"): its absence raises inside the try block, and the except
\* clause raises the FFmpeg message again
TranscribeFfmpeg ==
    /\ transcription.pc = "ffmpeg"
    /\ transcription' =
           IF ~transcription.ffmpeg
           THEN TrSet([pc |-> "except", error |-> "ffmpeg"])
           ELSE TrSet([pc |-> "whisper"])
    /\ TrFrame

\* whisper_model.transcribe returns: the stripped text, or the guidance string
\* when nothing is left
TranscribeHeard(heard) ==
    /\ transcription.pc = "whisper"
    /\ transcription' =
           TrSet([pc |-> "respond",
                  text |-> IF Strip(heard) = <<>> THEN NOT_HEARD ELSE Strip(heard)])
    /\ TrFrame

\* whisper_model.transcribe raises: the except clause raises again
TranscribeRaises ==
    /\ transcription.pc = "whisper"
    /\ transcription' = TrSet([pc |-> "except", error |-> "failed"])
    /\ TrFrame

\* return {"text": text}
TranscribeRespond ==
    /\ transcription.pc = "respond"
    /\ transcription' = TrSet([pc |-> "finally", status |-> 200])
    /\ TrFrame

\* except Exception: raise HTTPException(status_code=500, ...)
TranscribeExcept ==
    /\ transcription.pc = "except"
    /\ transcription' = TrSet([pc |-> "finally", status |-> 500, text |-> <<>>])
    /\ TrFrame

\* finally: if temp_path and os.path.exists(temp_path): os.unlink(temp_path)
TranscribeFinally ==
    /\ transcription.pc = "finally"
    /\ transcription' =
           TrSet([pc |-> "done",
                  temp_file |-> IF transcription.temp_path # NONE
                                THEN FALSE ELSE transcription.temp_file])
    /\ TrFrame

\* the response has been sent
TranscribeRelease ==
    /\ transcription.pc = "done"
    /\ transcription' =
           IdleTranscription(transcription.whisper_model, transcription.ffmpeg)
    /\ TrFrame

InitTranscribe ==
    /\ config \in {c \in StoreConfigs : c.MAX_CONVERSATION_HISTORY = MaxTurnsBound}
    /\ InitServer
    /\ call = NoCall
    /\ \E w \in BOOLEAN, f \in BOOLEAN : transcription = IdleTranscription(w, f)

NextTranscribe ==
    \/ \E size \in UploadSizes : TranscribeStart(size)
    \/ \E ok \in BOOLEAN : TranscribeRead(ok)
    \/ TranscribeCall
    \/ TranscribeSize
    \/ TranscribeFfmpeg
    \/ \E heard \in HeardTexts : TranscribeHeard(heard)
    \/ TranscribeRaises
    \/ TranscribeRespond
    \/ TranscribeExcept
    \/ TranscribeFinally
    \/ TranscribeRelease

SpecTranscribe == InitTranscribe /\ [][NextTranscribe]_vars

\* C16: a recording under 1000 bytes gets the "recording too short" guidance
\* string and no error, whether or not the speech model is loaded and whether or
\* not the decoder is installed.
C16_ShortRecordingGuidance ==
    ( /\ transcription.pc = "done"
      /\ transcription.temp_path # NONE
      /\ transcription.file_size < MIN_AUDIO_BYTES )
    => ( /\ transcription.status = 200
         /\ transcription.text = TOO_SHORT )

(* ------------------------------- prompts ------------------------------- *)
\* the messages a single-prompt rendering carries, read back from its lines
GeminiMessages(rendered) ==
    [i \in 1..Len(rendered.history_text) |->
        [role |-> IF rendered.history_text[i][1] = "User" THEN "user"
                  ELSE "assistant",
         content |-> rendered.history_text[i][2]]]

\* the last min(6, length) messages of a history
LastMessages(history) ==
    [i \in 1..Min(6, Len(history)) |->
        history[Len(history) - Min(6, Len(history)) + i]]

\* C17: for every history, the structured-message path and the single-prompt path
\* carry the same messages: the last min(6, length) messages, in order, with
\* their roles and contents, before the new prompt.
C17_SameHistoryWindow ==
    (call.fn = "history" /\ call.done) =>
        LET expected == LastMessages(call.args)
            n == Len(expected)
        IN  /\ Len(call.ret.openai) = n + 1
            /\ SubSeq(call.ret.openai, 1, n) = expected
            /\ call.ret.openai[n + 1] =
                   [role |-> "user", content |-> <<"STORYTELLER_PROMPT">>]
            /\ GeminiMessages(call.ret.gemini) = expected
            /\ call.ret.gemini.prompt = <<"STORYTELLER_PROMPT">>

\* a history of seven messages: both paths drop the first and keep six
C17_Witness ==
    /\ call.fn = "history"
    /\ call.done
    /\ Len(call.args) = 7
    /\ Len(call.ret.openai) = 7
    /\ Len(call.ret.gemini.history_text) = 6
    /\ call.ret.gemini.history_text[1][2] = <<"m", "2">>

\* prompt p holds the instruction to answer in the language called name
Instructs(p, name) ==
    \E i \in 1..Len(p) :
        i < Len(p) /\ p[i] = "RESPOND_ENTIRELY_IN" /\ p[i + 1] = name

\* C18: for every language code other than "en", in the table or not, the
\* composed prompt holds an instruction to answer in the display name resolved
\* for the code; for "en" it holds no such instruction.
C18_LanguageInstruction ==
    (call.fn = "base_prompt" /\ call.done) =>
        LET language == call.args.language
            resolved == IF language \in {"en", "es", "fr", "hi"}
                        THEN SUPPORTED_LANGUAGES[language] ELSE "English"
        IN  /\ language # "en" => Instructs(call.ret, resolved)
            /\ language = "en" =>
                   \A i \in 1..Len(call.ret) : call.ret[i] # "RESPOND_ENTIRELY_IN"

\* a code outside the table: the instruction names the default, English
C18_Witness ==
    /\ call.fn = "base_prompt"
    /\ call.done
    /\ call.args.language = "ja"
    /\ Instructs(call.ret, "English")

\* C19: for a code that is not in the fallback table _get_fallback_message
\* returns the English message, for a code of the table that code's own message.
C19_DefaultFallback ==
    (call.fn = "_get_fallback_message" /\ call.done) =>
        IF call.args \in {"en", "es", "fr", "de", "hi"}
        THEN call.ret = fallbacks[call.args]
        ELSE call.ret = UNKNOWN_QUERY_RESPONSE

\* "ja" is not in the table and gets the English message
C19_Witness ==
    /\ call.fn = "_get_fallback_message"
    /\ call.done
    /\ call.args = "ja"
    /\ call.ret = UNKNOWN_QUERY_RESPONSE

(* ------------------------------ narration ------------------------------ *)
\* C20: when nothing is left of the answer after the cleaning pass, the audio
\* subtask returns None at once: no request goes to the narration endpoint and
\* no file is written.
C20_EmptyNarration ==
    \A r \in Slots :
        (Returned(r) /\ clean_text(req[r].answer) = <<>>) =>
            /\ req[r].audio_calls = 0
            /\ req[r].audio.state # "waiting"
            /\ req[r].audio_url = NONE
            /\ \A f \in written : f.path # AudioUrl(<<>>)

\* the provider answered ":)", audio was asked for and is switched on with a key
C20_Witness ==
    \E r \in Slots :
        /\ req[r].pc = "done"
        /\ req[r].answer = <<":", ")">>
        /\ req[r].generate_audio
        /\ config.AUDIO_ENABLED
        /\ config.ELEVENLABS_API_KEY
        /\ req[r].audio.outcome = "empty"
        /\ req[r].audio_calls = 0
        /\ req[r].audio_url = NONE

(* --------------------------- narration files --------------------------- *)
\* SpecNarration: overlapping requests of any session and language that ask for
\* narration only, with audio switched on, a key, and a text provider.
NarrationConfigs ==
    {c \in Configs : /\ ~c.IMAGE_GENERATION_ENABLED
                     /\ c.AUDIO_ENABLED
                     /\ c.ELEVENLABS_API_KEY
                     /\ c.LLM_PROVIDER = "openai"
                     /\ c.initialized
                     /\ c.MAX_CONVERSATION_HISTORY = MaxTurnsBound}

InitNarration ==
    /\ config \in NarrationConfigs
    /\ InitState

HandleNarration(r) ==
    \/ CheckIndex(r)
    \/ GetSession(r)
    \/ \E results \in SearchResults : Retrieve(r, results)
    \/ FallbackBegin(r)
    \/ FallbackImage(r)
    \/ FallbackAudio(r)
    \/ \E outcome \in MediaOutcomes : FallbackAudioResponse(r, outcome)
    \/ FullBegin(r)
    \/ GenerateText(r)
    \/ \E text \in ProviderAnswers : TextResponse(r, TRUE, text)
    \/ TextResponse(r, FALSE, <<>>)
    \/ CreateTasks(r)
    \/ ImageSleepRun(r)
    \/ AudioTaskRun(r)
    \/ \E outcome \in MediaOutcomes : AudioTaskResponse(r, outcome)
    \/ GatherJoin(r)
    \/ AppendTurn(r)
    \/ TrimHistory(r)
    \/ StoreSession(r)
    \/ ChatReturn(r)
    \/ Release(r)

ArriveNarration(r) ==
    /\ arrivals < MaxNarrationArrivals
    /\ \E sid \in Sessions, lang \in Languages : ChatStart(r, sid, FALSE, TRUE, lang)

NextNarration == \E r \in Slots : ArriveNarration(r) \/ HandleNarration(r)

SpecNarration == InitNarration /\ [][NextNarration]_vars

\* the audio subtask of request r wrote its file and returned the URL
Narrated(r) == req[r].audio.state = "done" /\ req[r].audio.outcome = "ok"

\* C21: two audio subtask executions that returned a path return the same path
\* and URL exactly when their cleaned narration texts are the same, whatever
\* their requests, sessions and languages; the file of that path was written.
C21_PathByCleanedText ==
    \A r \in Slots : \A o \in Slots :
        (Narrated(r) /\ Narrated(o)) =>
            /\ (clean_text(req[r].answer) = clean_text(req[o].answer))
                   <=> (req[r].audio.result = req[o].audio.result)
            /\ req[r].audio.result = AudioUrl(clean_text(req[r].answer))
            /\ \E f \in written : f.path = req[r].audio.result

\* two requests of different sessions and languages whose answers differ by an
\* emoji only were narrated to one path
C21_Witness ==
    \E r \in Slots : \E o \in Slots :
        /\ Narrated(r) /\ Narrated(o)
        /\ req[r].session_id # req[o].session_id
        /\ req[r].language # req[o].language
        /\ req[r].answer # req[o].answer
        /\ clean_text(req[r].answer) = clean_text(req[o].answer)
        /\ req[r].audio.result = req[o].audio.result

(* ----------------------------- image scene ----------------------------- *)
\* the rows of the keyword table whose keyword occurs in a text
Matching(text) == {i \in DOMAIN keywords : Occurs(keywords[i].key, text)}

\* the k-th row of a set of rows, in table order
Nth(rows, k) == CHOOSE i \in rows : Cardinality({j \in rows : j < i}) = k - 1

\* the prompt for a set of matching rows: the descriptions of its first three
\* rows (all when fewer), the style suffix; the placeholder for no row
PromptFor(rows) ==
    LET d(k) == keywords[Nth(rows, k)].desc
        scene == CASE Cardinality(rows) = 0 -> "classic storybook scene"
                   [] Cardinality(rows) = 1 -> d(1)
                   [] Cardinality(rows) = 2 -> d(1) \o ", " \o d(2)
                   [] OTHER -> d(1) \o ", " \o d(2) \o ", " \o d(3)
    IN  scene \o ", " \o IMAGE_STYLE

\* C22 as stated: for every question and answer the prompt is made of the first
\* three keywords, in table order, that occur in the lowercased concatenation of
\* question and answer, then the style suffix; the placeholder when none occurs.
C22_SceneFromConcatenation ==
    (call.fn = "_create_image_prompt" /\ call.done) =>
        call.ret = PromptFor(Matching(LowerText(call.args.question \o call.args.answer)))

\* C22 amended: the keywords are looked for in the lowercased text made of the
\* question, one space and the answer.
C22_SceneFromJoinedText ==
    (call.fn = "_create_image_prompt" /\ call.done) =>
        call.ret = PromptFor(Matching(LowerText(
                       call.args.question \o <<" ">> \o call.args.answer)))

\* five keywords occur, some in capitals and none in table order: the scene is
\* Alice, the rabbit and the queen
C22_Witness ==
    /\ call.fn = "_create_image_prompt"
    /\ call.done
    /\ Cardinality(Matching(LowerText(
            call.args.question \o <<" ">> \o call.args.answer))) = 5
    /\ call.ret = keywords[1].desc \o ", " \o keywords[3].desc \o ", "
                      \o keywords[4].desc \o ", " \o IMAGE_STYLE

(* ----------------------------- turn alignment -------------------------- *)
\* the (question, answer) pairs that requests of session s have produced: those
\* of the handlers past generate_response and those already stored
Produced(s) ==
    {<<req[r].question, req[r].answer>> :
        r \in {o \in Slots : req[o].session_id = s /\ Returned(o)}}
    \cup Range(completed[s])

\* C23: in every reachable state, under any interleaving of the requests of a
\* session, the stored history is turn-aligned: it is a sequence of pairs, a
\* user message at each even position (0-based) and at the odd position after
\* it the assistant message with the answer produced for that question.
C23_TurnAligned ==
    \A s \in Sessions :
        LET history == Stored(s)
        IN  /\ Len(history) % 2 = 0
            /\ \A i \in DOMAIN history :
                   history[i].role = IF i % 2 = 1 THEN "user" ELSE "assistant"
            /\ \A i \in DOMAIN history :
                   i % 2 = 1 =>
                       <<history[i].content, history[i + 1].content>> \in Produced(s)

\* requests of one session overlapped, a turn was lost on the way and the
\* history was trimmed: what is stored is still whole pairs
C23_Witness ==
    /\ overlapped
    /\ Quiescent
    /\ \E s \in Sessions :
           /\ Len(completed[s]) > config.MAX_CONVERSATION_HISTORY
           /\ Len(Stored(s)) = 2 * config.MAX_CONVERSATION_HISTORY
           /\ Stored(s) # Expected(s)

(* ---------------------------- error responses -------------------------- *)
\* SpecErrors: overlapping requests of any session, the index initialized or not,
\* where retrieval and the building of the sources may raise; media generation is
\* switched off and no provider is configured.
ErrorConfigs ==
    {c \in Configs : /\ ~c.IMAGE_GENERATION_ENABLED
                     /\ ~c.AUDIO_ENABLED
                     /\ ~c.ELEVENLABS_API_KEY
                     /\ c.LLM_PROVIDER = "none"
                     /\ c.MAX_CONVERSATION_HISTORY = MaxTurnsBound}

InitErrors ==
    /\ config \in ErrorConfigs
    /\ InitState

HandleErrors(r) ==
    \/ HandleStore(r)
    \/ ExceptHandler(r)
    \/ RetrieveRaises(r)
    \/ SourcesRaise(r)

ArriveErrors(r) ==
    /\ arrivals < MaxErrorArrivals
    /\ \E sid \in Sessions : ChatStart(r, sid, FALSE, FALSE, "en")

NextErrors == \E r \in Slots : ArriveErrors(r) \/ HandleErrors(r)

SpecErrors == InitErrors /\ [][NextErrors]_vars

\* request r took the step
Stepped(r) == req'[r] # req[r]

\* C24: a request that ends in an error response has appended no message to any
\* history, the step that turns it into an error changes no history, and every
\* change of a session's stored history is made by a step of a request of that
\* session: a request never changes the history of another session.
C24_ErrorsAndOtherSessions ==
    /\ [](\A r \in Slots : Failed(r) => ~TurnAppended(r))
    /\ [][ /\ \A r \in Slots :
                 (Stepped(r) /\ req'[r].pc \in {"except", "failed"}) =>
                     \A s \in Sessions : Stored(s)' = Stored(s)
           /\ \A s \in Sessions :
                 Stored(s)' # Stored(s) =>
                     \E r \in Slots : /\ Stepped(r)
                                      /\ req[r].session_id = s
                                      /\ req'[r].session_id = s ]_vars

\* a request of session 1 failed in retrieval after its session was created,
\* while session 2 holds the turn of a request that succeeded
C24_Witness ==
    \E r \in Slots :
        /\ req[r].pc = "failed"
        /\ req[r].status = 500
        /\ req[r].session_id = 1
        /\ req[r].visited = <<"Start", "Retrieve">>
        /\ conversation_sessions[1] # 0
        /\ Stored(1) = <<>>
        /\ Len(Stored(2)) = 2

(* --------------------------- fallback branch --------------------------- *)
\* request r is in, or has gone through, the Fallback branch
InFallback(r) == \E i \in DOMAIN req[r].visited : req[r].visited[i] = "Fallback"

\* the files the two subtasks make of a question, a narration text and a language
MediaOf(question, text, language) ==
    { [path |-> ImageUrl(_create_image_prompt(question, text)),
       input |-> [text |-> _create_image_prompt(question, text),
                  model_id |-> "flux"]],
      [path |-> AudioUrl(clean_text(text)),
       input |-> [text |-> Str(clean_text(text)),
                  model_id |-> ModelId(language)]] }

\* C25: in the Fallback branch the text provider is never called; the calls made
\* after retrieval are those of the enabled image and audio subtasks, one each,
\* and what they write is made of the fallback text of the request's language.
C25_FallbackSkipsProvider ==
    /\ [](\A r \in Slots :
             InFallback(r) =>
                 /\ req[r].text_calls = 0
                 /\ req[r].text_outcome = "none"
                 /\ req[r].pc \notin {"text", "text_wait"}
                 /\ req[r].answer = fallbacks[req[r].language]
                 /\ ~ImageEnabled(r) => req[r].image_calls = 0
                 /\ ~AudioEnabled(r) => req[r].audio_calls = 0
                 /\ Returned(r) =>
                        /\ ImageEnabled(r) => req[r].image_calls = 1
                        /\ AudioEnabled(r) => req[r].audio_calls = 1)
    /\ [][\A r \in Slots :
             (InFallback(r) /\ Stepped(r)) =>
                 (written' \ written) \subseteq
                     MediaOf(req[r].question, fallbacks[req[r].language],
                             req[r].language)]_vars

\* a provider is configured, the retrieval was not relevant, both subtasks made
\* their call and wrote their file, and the provider was not called
C25_Witness ==
    \E r \in Slots :
        /\ req[r].pc = "done"
        /\ ~req[r].is_relevant
        /\ config.LLM_PROVIDER = "openai"
        /\ req[r].language = "fr"
        /\ req[r].text_calls = 0
        /\ req[r].image_calls = 1
        /\ req[r].audio_calls = 1
        /\ written = MediaOf(req[r].question, fallbacks["fr"], "fr")

(* ---------------------------- temporary file --------------------------- *)
\* C26: on every path through the /api/transcribe handler (a transcription, a
\* guidance string, or a failure at any step after the temporary file was
\* created, a failure while reading the upload included) the temporary file no
\* longer exists once the handler has returned.
C26_TempFileRemoved ==
    transcription.pc = "done" => ~transcription.temp_file

====
